---- MODULE Spec2Model ----
(***************************************************************************)
(* Model of the Zeno auto-rigger operators (tools/operators/auto_rigger.py *)
(* and tools/operators/create_armature.py).                                *)
(*                                                                         *)
(* Units.  The source works in floating point.  Every fraction of the      *)
(* guide table is a multiple of 0.05 and every fixed offset a multiple of  *)
(* 0.1, so the model keeps bounding-box dimensions in tenths of a unit and *)
(* coordinates in thousandths of a unit: height * 0.2 is height * 20, the  *)
(* literal 0.1 is 100, the literal 2.5 is 2500.                            *)
(*                                                                         *)
(* Host.  The scene graph (objects, selection, active object, edit mode)   *)
(* belongs to the host application.  The host operators are modelled by    *)
(* what the source relies on them to do at the call sites named in the     *)
(* comments.  The two cosmetic custom properties of a guide (bendy_joints, *)
(* stretchable) are never read and are left out of the object record.      *)
(***************************************************************************)
EXTENDS Integers, Sequences, FiniteSets, TLC

VARIABLES
    objects,     \* bpy.data.objects: object id -> object record
    active,      \* context.active_object / context.object (an id, or NoObject)
    mode,        \* the host's mode: "OBJECT" or "EDIT"
    nextId,      \* the id the next created object gets
    generated,   \* the armature made by the most recent generate rig (or NoObject)
    op,          \* the operator that ran last ("user" for a host-level user step)
    result,      \* what it returned: "FINISHED", "CANCELLED" ("NONE" for a user step)
    guide_runs,  \* finished runs of create guides
    rigs         \* armatures created so far

vars == <<objects, active, mode, nextId, generated, op, result, guide_runs, rigs>>

(***************************************************************************)
(* Bounds of the model.                                                    *)
(***************************************************************************)
\* armatures created in one session (generate rig + create human rig runs)
MaxRigs == 2
\* runs of create guides in one session
MaxGuideRuns == 1
\* chains with guides missing when generate rig starts (any guides of such a chain)
MaxBrokenChains == 1
\* largest bounding-box height and width, in half units (5 tenths)
MaxDim == 6
\* largest factor by which a bounding box is scaled
MaxScale == 3

(***************************************************************************)
(* Values.                                                                 *)
(***************************************************************************)
\* Python's None for an object reference (no object has id 0)
NoObject == 0
\* Python's None for a bone name: the empty string, falsy like None
NoBone == ""

Vector(x, y, z) == <<x, y, z>>

VecAdd(a, b) == <<a[1] + b[1], a[2] + b[2], a[3] + b[3]>>

VecSub(a, b) == <<a[1] - b[1], a[2] - b[2], a[3] - b[3]>>

VecScale(k, a) == <<k * a[1], k * a[2], k * a[3]>>

Range(f) == {f[i] : i \in DOMAIN f}

\* a host object name: base string and numeric suffix (0: none, 1: ".001")
Name(base, n) == <<base, n>>

(***************************************************************************)
(* auto_rigger.py 103-133: the guide table.  height and width in tenths,   *)
(* center and the locations in thousandths.  guide_offsets holds each      *)
(* entry's Vector((...)) and guides_data adds `+ center` to it.            *)
(***************************************************************************)
guide_offsets(height, width) ==
    << \* Spine chain
       [name |-> "C_Root_Guide", offset |-> Vector(0, 0, 0)],
       [name |-> "C_Spine_01_Guide", offset |-> Vector(0, 0, height * 20)],
       [name |-> "C_Spine_02_Guide", offset |-> Vector(0, 0, height * 40)],
       [name |-> "C_Spine_03_Guide", offset |-> Vector(0, 0, height * 60)],
       \* Left arm chain
       [name |-> "L_Shoulder_Guide", offset |-> Vector(width * 20, 0, height * 80)],
       [name |-> "L_Arm_Guide", offset |-> Vector(width * 40, 0, height * 75)],
       [name |-> "L_Forearm_Guide", offset |-> Vector(width * 60, 0, height * 65)],
       [name |-> "L_Hand_Guide", offset |-> Vector(width * 80, 0, height * 60)],
       \* Right arm chain (mirrored)
       [name |-> "R_Shoulder_Guide", offset |-> Vector((-width) * 20, 0, height * 80)],
       [name |-> "R_Arm_Guide", offset |-> Vector((-width) * 40, 0, height * 75)],
       [name |-> "R_Forearm_Guide", offset |-> Vector((-width) * 60, 0, height * 65)],
       [name |-> "R_Hand_Guide", offset |-> Vector((-width) * 80, 0, height * 60)],
       \* Left leg chain
       [name |-> "L_Hip_Guide", offset |-> Vector(width * 10, 0, height * 35)],
       [name |-> "L_Thigh_Guide", offset |-> Vector(width * 15, 0, height * 25)],
       [name |-> "L_Shin_Guide", offset |-> Vector(width * 15, 0, height * 10)],
       [name |-> "L_Foot_Guide", offset |-> Vector(width * 15, 100, 0)],
       \* Right leg chain (mirrored)
       [name |-> "R_Hip_Guide", offset |-> Vector((-width) * 10, 0, height * 35)],
       [name |-> "R_Thigh_Guide", offset |-> Vector((-width) * 15, 0, height * 25)],
       [name |-> "R_Shin_Guide", offset |-> Vector((-width) * 15, 0, height * 10)],
       [name |-> "R_Foot_Guide", offset |-> Vector((-width) * 15, 100, 0)] >>

\* a slip in the table: the right shoulder entry not mirrored
guides_data_unmirrored(height, width, center) ==
    [i \in DOMAIN guide_offsets(height, width) |->
        [name |-> guide_offsets(height, width)[i].name,
         location |-> IF guide_offsets(height, width)[i].name = "R_Shoulder_Guide"
                      THEN VecAdd(Vector(width * 20, 0, height * 80), center)
                      ELSE VecAdd(guide_offsets(height, width)[i].offset, center)]]

\* a slip in the table: spine guide 2 with spine guide 1's fraction
guides_data_spine_slip(height, width, center) ==
    [i \in DOMAIN guide_offsets(height, width) |->
        [name |-> guide_offsets(height, width)[i].name,
         location |-> IF guide_offsets(height, width)[i].name = "C_Spine_02_Guide"
                      THEN VecAdd(Vector(0, 0, height * 20), center)
                      ELSE VecAdd(guide_offsets(height, width)[i].offset, center)]]

\* a slip in the table: a fixed lift of 0.1 on the hand guides
guides_data_fixed_lift(height, width, center) ==
    [i \in DOMAIN guide_offsets(height, width) |->
        [name |-> guide_offsets(height, width)[i].name,
         location |-> IF guide_offsets(height, width)[i].name \in {"L_Hand_Guide", "R_Hand_Guide"}
                      THEN VecAdd(VecAdd(guide_offsets(height, width)[i].offset, Vector(0, 0, 100)), center)
                      ELSE VecAdd(guide_offsets(height, width)[i].offset, center)]]

guides_data(height, width, center) ==
    [i \in DOMAIN guide_offsets(height, width) |->
        [name |-> guide_offsets(height, width)[i].name,
         location |-> VecAdd(guide_offsets(height, width)[i].offset, center)]]

(***************************************************************************)
(* auto_rigger.py 186-207: the chain table, in the dict's insertion order. *)
(***************************************************************************)
chains ==
    << [chain |-> "spine",
        guides |-> <<"C_Root_Guide", "C_Spine_01_Guide", "C_Spine_02_Guide", "C_Spine_03_Guide">>,
        bones |-> <<"C_Root_Bone", "C_Spine_01_Bone", "C_Spine_02_Bone", "C_Spine_03_Bone">>],
       [chain |-> "left_arm",
        guides |-> <<"L_Shoulder_Guide", "L_Arm_Guide", "L_Forearm_Guide", "L_Hand_Guide">>,
        bones |-> <<"L_Shoulder_Bone", "L_Arm_Bone", "L_Forearm_Bone", "L_Hand_Bone">>],
       [chain |-> "right_arm",
        guides |-> <<"R_Shoulder_Guide", "R_Arm_Guide", "R_Forearm_Guide", "R_Hand_Guide">>,
        bones |-> <<"R_Shoulder_Bone", "R_Arm_Bone", "R_Forearm_Bone", "R_Hand_Bone">>],
       [chain |-> "left_leg",
        guides |-> <<"L_Hip_Guide", "L_Thigh_Guide", "L_Shin_Guide", "L_Foot_Guide">>,
        bones |-> <<"L_Hip_Bone", "L_Thigh_Bone", "L_Shin_Bone", "L_Foot_Bone">>],
       [chain |-> "right_leg",
        guides |-> <<"R_Hip_Guide", "R_Thigh_Guide", "R_Shin_Guide", "R_Foot_Guide">>,
        bones |-> <<"R_Hip_Bone", "R_Thigh_Bone", "R_Shin_Bone", "R_Foot_Bone">>] >>

(***************************************************************************)
(* create_armature.py 50-75: the bones of the human rig, in call order.    *)
(***************************************************************************)
human_bones ==
    << [name |-> "spine_base", head |-> Vector(0, 0, 0), tail |-> Vector(0, 0, 1000), parent_bone |-> NoBone],
       [name |-> "spine_mid", head |-> Vector(0, 0, 1000), tail |-> Vector(0, 0, 2000), parent_bone |-> "spine_base"],
       [name |-> "spine_top", head |-> Vector(0, 0, 2000), tail |-> Vector(0, 0, 3000), parent_bone |-> "spine_mid"],
       [name |-> "shoulder.L", head |-> Vector(0, 200, 2500), tail |-> Vector(0, 500, 2500), parent_bone |-> "spine_top"],
       [name |-> "upper_arm.L", head |-> Vector(0, 500, 2500), tail |-> Vector(0, 800, 2500), parent_bone |-> "shoulder.L"],
       [name |-> "lower_arm.L", head |-> Vector(0, 800, 2500), tail |-> Vector(0, 1100, 2500), parent_bone |-> "upper_arm.L"],
       [name |-> "shoulder.R", head |-> Vector(0, -200, 2500), tail |-> Vector(0, -500, 2500), parent_bone |-> "spine_top"],
       [name |-> "upper_arm.R", head |-> Vector(0, -500, 2500), tail |-> Vector(0, -800, 2500), parent_bone |-> "shoulder.R"],
       [name |-> "lower_arm.R", head |-> Vector(0, -800, 2500), tail |-> Vector(0, -1100, 2500), parent_bone |-> "upper_arm.R"],
       [name |-> "hip.L", head |-> Vector(0, 200, 0), tail |-> Vector(0, 200, -1000), parent_bone |-> "spine_base"],
       [name |-> "thigh.L", head |-> Vector(0, 200, -1000), tail |-> Vector(0, 200, -2000), parent_bone |-> "hip.L"],
       [name |-> "shin.L", head |-> Vector(0, 200, -2000), tail |-> Vector(0, 200, -3000), parent_bone |-> "thigh.L"],
       [name |-> "hip.R", head |-> Vector(0, -200, 0), tail |-> Vector(0, -200, -1000), parent_bone |-> "spine_base"],
       [name |-> "thigh.R", head |-> Vector(0, -200, -1000), tail |-> Vector(0, -200, -2000), parent_bone |-> "hip.R"],
       [name |-> "shin.R", head |-> Vector(0, -200, -2000), tail |-> Vector(0, -200, -3000), parent_bone |-> "thigh.R"] >>

(***************************************************************************)
(* The host scene as one value, so that an operator's calls compose.       *)
(***************************************************************************)
Scene == [objects |-> objects, active |-> active, mode |-> mode, nextId |-> nextId]

Commit(s) ==
    /\ objects' = s.objects
    /\ active' = s.active
    /\ mode' = s.mode
    /\ nextId' = s.nextId

Object(type, name, location, height, width) ==
    [type |-> type, name |-> name, location |-> location, select |-> TRUE,
     parent |-> NoObject, constraints |-> <<>>, height |-> height, width |-> width,
     bones |-> <<>>]

\* the host keeps object names unique: a taken name gets the first free suffix
UniqueName(objs, base) ==
    IF \A o \in DOMAIN objs : objs[o].name # Name(base, 0)
    THEN Name(base, 0)
    ELSE Name(base, CHOOSE n \in 1..(Cardinality(DOMAIN objs) + 1) :
                       /\ \A o \in DOMAIN objs : objs[o].name # Name(base, n)
                       /\ \A m \in 1..(n - 1) : \E o \in DOMAIN objs : objs[o].name = Name(base, m))

\* obj.name = name (auto_rigger.py 12 and 30, create_armature.py 34)
set_name(s, o, base) ==
    LET others == [x \in (DOMAIN s.objects) \ {o} |-> s.objects[x]]
    IN  [s EXCEPT !.objects[o].name = UniqueName(others, base)]

\* an add operator of the host: the new object is the only selected one and active
add_object(s, type, base, location, height, width) ==
    LET id == s.nextId
        objs == [o \in DOMAIN s.objects |-> [s.objects[o] EXCEPT !.select = FALSE]]
        new == Object(type, UniqueName(s.objects, base), location, height, width)
    IN  [s EXCEPT !.objects = objs @@ (id :> new), !.active = id, !.nextId = id + 1]

\* bpy.ops.object.mode_set(mode=...)
mode_set(s, m) == [s EXCEPT !.mode = m]

\* bpy.ops.object.armature_add(enter_editmode=..., location=...)
armature_add(s, enter_editmode, location) ==
    LET s1 == add_object(s, "ARMATURE", "Armature", location, 0, 0)
    IN  IF enter_editmode THEN mode_set(s1, "EDIT") ELSE s1

\* bpy.ops.mesh.primitive_cube_add(size=..., location=...): size in tenths
primitive_cube_add(s, size, location) ==
    add_object(s, "MESH", "Cube", location, size, size)

\* bpy.ops.object.select_all(action='DESELECT')
select_all_deselect(s) ==
    [s EXCEPT !.objects = [o \in DOMAIN s.objects |-> [s.objects[o] EXCEPT !.select = FALSE]]]

\* bpy.ops.object.select_by_type(type=...)
select_by_type(s, type) ==
    [s EXCEPT !.objects = [o \in DOMAIN s.objects |->
                              [s.objects[o] EXCEPT !.select = (s.objects[o].type = type)]]]

\* obj.select_set(True)
select_set(s, o) == [s EXCEPT !.objects[o].select = TRUE]

\* removing a set of objects from the scene: a child of a removed object loses its
\* parent, and the active object is none when it was removed
remove_objects(s, gone) ==
    LET kept == (DOMAIN s.objects) \ gone
    IN  [s EXCEPT !.objects = [o \in kept |->
                                  IF s.objects[o].parent \in gone
                                  THEN [s.objects[o] EXCEPT !.parent = NoObject]
                                  ELSE s.objects[o]],
                  !.active = IF s.active \in gone THEN NoObject ELSE s.active]

\* bpy.ops.object.delete(): the selected objects
delete(s) == remove_objects(s, {o \in DOMAIN s.objects : s.objects[o].select})

\* bpy.ops.object.parent_set(type='ARMATURE_AUTO'): every selected object but the
\* active one becomes a child of the active one
parent_set(s) ==
    [s EXCEPT !.objects = [o \in DOMAIN s.objects |->
                              IF s.objects[o].select /\ o # s.active
                              THEN [s.objects[o] EXCEPT !.parent = s.active]
                              ELSE s.objects[o]]]

\* bpy.ops.object.parent_clear(type='CLEAR_KEEP_TRANSFORM'): every selected object
parent_clear(s) ==
    [s EXCEPT !.objects = [o \in DOMAIN s.objects |->
                              IF s.objects[o].select
                              THEN [s.objects[o] EXCEPT !.parent = NoObject]
                              ELSE s.objects[o]]]

\* bpy.data.objects.get(name): the object of that exact name, or None
get_guide_by_name(s, name) ==
    IF \E o \in DOMAIN s.objects : s.objects[o].name = Name(name, 0)
    THEN CHOOSE o \in DOMAIN s.objects : s.objects[o].name = Name(name, 0)
    ELSE NoObject

(***************************************************************************)
(* AutoRiggerTool (auto_rigger.py 5-36).                                   *)
(***************************************************************************)
create_armature(s, name, location) ==
    LET s1 == armature_add(s, TRUE, location)
        armature == s1.active
    IN  [scene |-> set_name(s1, armature, name), armature |-> armature]

\* `parent_bone in armature.data.edit_bones`: a bone of that name exists
HasBone(edit_bones, name) == \E i \in DOMAIN edit_bones : edit_bones[i].name = name

\* in_edit records the host's state at the call of edit_bones.new: whether the
\* host was in edit mode on this armature
EditBone(s, armature, name, head, tail, parent) ==
    [name |-> name, head |-> head, tail |-> tail, parent |-> parent,
     in_edit |-> (s.mode = "EDIT" /\ s.active = armature)]

create_bone(s, armature, name, head, tail, parent_bone) ==
    LET edit_bones == s.objects[armature].bones
        parent == IF parent_bone # NoBone /\ HasBone(edit_bones, parent_bone)
                  THEN parent_bone ELSE NoBone
    IN  [s EXCEPT !.objects[armature].bones =
                      Append(edit_bones, EditBone(s, armature, name, head, tail, parent))]

create_guide(s, name, location) ==
    LET s1 == primitive_cube_add(s, 1, location)
        guide == s1.active
    IN  [scene |-> set_name(s1, guide, name), guide |-> guide]

(***************************************************************************)
(* AUTORIGGER_OT_create_guides.execute (auto_rigger.py 90-142).            *)
(***************************************************************************)
RECURSIVE guides_loop(_, _, _, _)
guides_loop(s, mesh_obj, data, i) ==
    IF i > Len(data) THEN s
    ELSE LET g == create_guide(s, data[i].name, data[i].location)
             constraint == [type |-> "SHRINKWRAP", target |-> mesh_obj,
                            shrinkwrap_type |-> "NEAREST_SURFACE"]
             s1 == [g.scene EXCEPT !.objects[g.guide].constraints = Append(@, constraint)]
         IN  guides_loop(s1, mesh_obj, data, i + 1)

create_guides_execute(s) ==
    LET mesh_obj == s.active
    IN  IF mesh_obj = NoObject \/ s.objects[mesh_obj].type # "MESH"
        THEN [scene |-> s, result |-> "CANCELLED"]
        ELSE LET center == s.objects[mesh_obj].location
                 height == s.objects[mesh_obj].height
                 width == s.objects[mesh_obj].width
             IN  [scene |-> guides_loop(s, mesh_obj, guides_data(height, width, center), 1),
                  result |-> "FINISHED"]

CreateGuides ==
    LET r == create_guides_execute(Scene)
    IN  /\ r.result = "FINISHED" => guide_runs < MaxGuideRuns
        /\ Commit(r.scene)
        /\ op' = "create_guides"
        /\ result' = r.result
        /\ guide_runs' = IF r.result = "FINISHED" THEN guide_runs + 1 ELSE guide_runs
        /\ UNCHANGED <<generated, rigs>>

(***************************************************************************)
(* AUTORIGGER_OT_generate_rig (auto_rigger.py 150-215).                    *)
(***************************************************************************)
\* a slip: every bone ends at the fixed offset, the next guide is not looked up
bone_tail_stub(s, guide_names, i, head) == VecAdd(head, Vector(0, 0, 100))

\* the tail of the bone built from guide i (1-based) of a chain
bone_tail(s, guide_names, i, head) ==
    IF i < Len(guide_names)
    THEN LET next_guide == get_guide_by_name(s, guide_names[i + 1])
         IN  IF next_guide # NoObject
             THEN s.objects[next_guide].location
             ELSE VecAdd(head, Vector(0, 0, 100))
    ELSE VecAdd(head, Vector(0, 0, 100))

\* a slip: bones[0] for bones[-1]
chain_parent_first(bones) == IF bones # <<>> THEN bones[1] ELSE NoBone

\* the parent handed to create_bone: the name of the last bone of `bones`
chain_parent(bones) == IF bones # <<>> THEN bones[Len(bones)] ELSE NoBone

\* the loop of create_bone_chain; `bones` holds the names of the bones made so far
RECURSIVE chain_loop(_, _, _, _, _, _)
chain_loop(s, armature, guide_names, bone_names, i, bones) ==
    IF i > Len(guide_names) \/ i > Len(bone_names) THEN s
    ELSE LET guide == get_guide_by_name(s, guide_names[i])
         IN  IF guide = NoObject
             THEN chain_loop(s, armature, guide_names, bone_names, i + 1, bones)
             ELSE LET head == s.objects[guide].location
                      tail == bone_tail(s, guide_names, i, head)
                      s1 == create_bone(s, armature, bone_names[i], head, tail,
                                        chain_parent(bones))
                  IN  chain_loop(s1, armature, guide_names, bone_names, i + 1,
                                 Append(bones, bone_names[i]))

\* a slip: the list of bones shared by all chains instead of local to one
create_bone_chain_shared(s, armature, guide_names, bone_names) ==
    chain_loop(s, armature, guide_names, bone_names, 1,
               [i \in DOMAIN s.objects[armature].bones |-> s.objects[armature].bones[i].name])

create_bone_chain(s, armature, guide_names, bone_names) ==
    chain_loop(s, armature, guide_names, bone_names, 1, <<>>)

RECURSIVE all_chains(_, _, _)
all_chains(s, armature, c) ==
    IF c > Len(chains) THEN s
    ELSE all_chains(create_bone_chain(s, armature, chains[c].guides, chains[c].bones),
                    armature, c + 1)

\* a slip: the mode switch left out
generate_rig_finish_missing(s) == s

\* the last statement of execute: switch back to object mode
generate_rig_finish(s) == mode_set(s, "OBJECT")

generate_rig_execute(s) ==
    LET a == create_armature(s, "AutoRig", Vector(0, 0, 0))
        s1 == all_chains(a.scene, a.armature, 1)
    IN  [scene |-> generate_rig_finish(s1), armature |-> a.armature, result |-> "FINISHED"]

GenerateRig ==
    LET r == generate_rig_execute(Scene)
    IN  /\ rigs < MaxRigs
        /\ Commit(r.scene)
        /\ generated' = r.armature
        /\ op' = "generate_rig"
        /\ result' = r.result
        /\ rigs' = rigs + 1
        /\ guide_runs' = guide_runs

(***************************************************************************)
(* create_armature.py: ZENO_OT_CreateHumanRig.                             *)
(***************************************************************************)
\* create_armature.py 30-38
human_create_armature(s, name, location) ==
    LET s1 == armature_add(s, TRUE, location)
        armature == s1.active
        s2 == set_name(s1, armature, name)
    IN  [scene |-> mode_set(s2, "EDIT"), armature |-> armature]

\* armature.data.edit_bones[parent_bone]: the bone of that name (a KeyError, here
\* an evaluation error, when there is none)
BoneNamed(edit_bones, name) ==
    edit_bones[CHOOSE i \in DOMAIN edit_bones : edit_bones[i].name = name]

\* create_armature.py 15-22
human_create_bone(s, armature, name, head, tail, parent_bone) ==
    LET edit_bones == s.objects[armature].bones
        parent == IF parent_bone # NoBone
                  THEN BoneNamed(edit_bones, parent_bone).name ELSE NoBone
    IN  [s EXCEPT !.objects[armature].bones =
                      Append(edit_bones, EditBone(s, armature, name, head, tail, parent))]

RECURSIVE human_bones_loop(_, _, _)
human_bones_loop(s, armature, i) ==
    IF i > Len(human_bones) THEN s
    ELSE human_bones_loop(
             human_create_bone(s, armature, human_bones[i].name, human_bones[i].head,
                               human_bones[i].tail, human_bones[i].parent_bone),
             armature, i + 1)

\* create_armature.py 43-45: clear existing armatures
clear_armatures(s) == delete(select_by_type(select_all_deselect(s), "ARMATURE"))

\* create_armature.py 78: return to object mode
human_rig_finish(s) == mode_set(s, "OBJECT")

human_rig_execute(s) ==
    LET a == human_create_armature(clear_armatures(s), "Human_Rig", Vector(0, 0, 0))
        s1 == human_bones_loop(a.scene, a.armature, 1)
    IN  [scene |-> human_rig_finish(s1), armature |-> a.armature, result |-> "FINISHED"]

CreateHumanRig ==
    LET r == human_rig_execute(Scene)
    IN  /\ rigs < MaxRigs
        /\ Commit(r.scene)
        /\ op' = "create_human_rig"
        /\ result' = r.result
        /\ rigs' = rigs + 1
        /\ UNCHANGED <<generated, guide_runs>>

(***************************************************************************)
(* AUTORIGGER_OT_bind_mesh.execute (auto_rigger.py 223-244).               *)
(***************************************************************************)
\* what the loop over bpy.data.objects can leave in mesh_obj: the last selected
\* mesh in the host's iteration order, which the source does not fix, so any
\* selected mesh; None when no mesh is selected
bind_mesh_candidates(s) ==
    LET hits == {o \in DOMAIN s.objects : s.objects[o].type = "MESH" /\ s.objects[o].select}
    IN  IF hits = {} THEN {NoObject} ELSE hits

\* a slip: the name test left out, any armature is taken
bind_armature_any(s) ==
    LET hits == {o \in DOMAIN s.objects : s.objects[o].type = "ARMATURE"}
    IN  IF hits = {} THEN NoObject ELSE CHOOSE o \in hits : TRUE

\* what the loop leaves in armature_obj: names are unique, so at most one object
\* is an armature named "AutoRig"
bind_armature(s) ==
    LET hits == {o \in DOMAIN s.objects :
                    /\ ~(s.objects[o].type = "MESH" /\ s.objects[o].select)
                    /\ s.objects[o].type = "ARMATURE"
                    /\ s.objects[o].name = Name("AutoRig", 0)}
    IN  IF hits = {} THEN NoObject ELSE CHOOSE o \in hits : TRUE

bind_mesh_execute(s, mesh_obj) ==
    LET armature_obj == bind_armature(s)
    IN  IF ~(mesh_obj # NoObject /\ armature_obj # NoObject)
        THEN [scene |-> s, result |-> "CANCELLED"]
        ELSE LET s1 == select_all_deselect(s)
                 s2 == select_set(s1, mesh_obj)
                 s3 == select_set(s2, armature_obj)
                 s4 == [s3 EXCEPT !.active = armature_obj]
             IN  [scene |-> parent_set(s4), result |-> "FINISHED"]

BindMesh ==
    \E mesh_obj \in bind_mesh_candidates(Scene) :
        LET r == bind_mesh_execute(Scene, mesh_obj)
        IN  /\ Commit(r.scene)
            /\ op' = "bind_mesh"
            /\ result' = r.result
            /\ UNCHANGED <<generated, guide_runs, rigs>>

(***************************************************************************)
(* AUTORIGGER_OT_clear_binding.execute (auto_rigger.py 324-330).           *)
(***************************************************************************)
\* a slip: the parent cleared before the selection is tested
clear_binding_execute_eager(s) ==
    IF s.active # NoObject /\ s.objects[s.active].type = "MESH"
    THEN [scene |-> parent_clear(s), result |-> "FINISHED"]
    ELSE [scene |-> parent_clear(s), result |-> "CANCELLED"]

clear_binding_execute(s) ==
    IF s.active # NoObject /\ s.objects[s.active].type = "MESH"
    THEN [scene |-> parent_clear(s), result |-> "FINISHED"]
    ELSE [scene |-> s, result |-> "CANCELLED"]

ClearBinding ==
    LET r == clear_binding_execute(Scene)
    IN  /\ Commit(r.scene)
        /\ op' = "clear_binding"
        /\ result' = r.result
        /\ UNCHANGED <<generated, guide_runs, rigs>>

(***************************************************************************)
(* The user's own steps in the host, between two operators.                *)
(***************************************************************************)
IsGuide(o) == objects[o].constraints # <<>>

\* the objects the user clicks on: the scene's own objects and the armatures
Clickable == {o \in DOMAIN objects : ~IsGuide(o)}

UserStep ==
    /\ op' = "user"
    /\ result' = "NONE"
    /\ UNCHANGED <<generated, guide_runs, rigs>>

\* a click: the object becomes the only selected one, and active
click(s, o) ==
    [s EXCEPT !.objects = [x \in DOMAIN s.objects |-> [s.objects[x] EXCEPT !.select = (x = o)]],
              !.active = o]

SelectOnly ==
    \E o \in Clickable :
        /\ Commit(click(Scene, o))
        /\ UserStep

\* a shift-click on a mesh: it joins the selection and becomes active
SelectExtend ==
    \E o \in Clickable :
        /\ objects[o].type = "MESH"
        /\ ~objects[o].select
        /\ Commit([select_set(Scene, o) EXCEPT !.active = o])
        /\ UserStep

(***************************************************************************)
(* The session: a scene with one mesh and one camera, nothing selected.    *)
(***************************************************************************)
InitScene(height, width, center) ==
    [objects |-> (1 :> [Object("MESH", Name("Body", 0), center, height, width)
                           EXCEPT !.select = FALSE])
              @@ (2 :> [Object("CAMERA", Name("Camera", 0), Vector(0, -5000, 1000), 0, 0)
                           EXCEPT !.select = FALSE]),
     active |-> NoObject, mode |-> "OBJECT", nextId |-> 3]

InitSession(s, runs) ==
    /\ objects = s.objects
    /\ active = s.active
    /\ mode = s.mode
    /\ nextId = s.nextId
    /\ generated = NoObject
    /\ op = "user"
    /\ result = "NONE"
    /\ guide_runs = runs
    /\ rigs = 0

Init == InitSession(InitScene(30, 20, Vector(0, 0, 0)), 0)

Next ==
    \/ SelectOnly
    \/ SelectExtend
    \/ CreateGuides
    \/ GenerateRig
    \/ CreateHumanRig
    \/ BindMesh
    \/ ClearBinding

Spec == Init /\ [][Next]_vars

(***************************************************************************)
(* Generate rig on its own: the session starts either with no guides at    *)
(* all or after create guides ran on the mesh and the user deleted guides  *)
(* of at most MaxBrokenChains chains (any non-empty set of a chain's       *)
(* guides), and generate rig runs (up to MaxRigs times).                   *)
(***************************************************************************)
GuidedScene == create_guides_execute(click(InitScene(30, 20, Vector(0, 0, 0)), 1)).scene

BrokenChainSets == {B \in SUBSET (DOMAIN chains) : Cardinality(B) <= MaxBrokenChains}

MissingGuides(B, f) ==
    UNION {{get_guide_by_name(GuidedScene, chains[c].guides[i]) : i \in f[c]} : c \in B}

RigScenes ==
    UNION {{remove_objects(GuidedScene, MissingGuides(B, f)) :
               f \in [B -> (SUBSET (1..4)) \ {{}}]} : B \in BrokenChainSets}

InitRig ==
    \/ InitSession(InitScene(30, 20, Vector(0, 0, 0)), 0)
    \/ \E s \in RigScenes : InitSession(s, 1)

NextRig == GenerateRig

SpecRig == InitRig /\ [][NextRig]_vars

(***************************************************************************)
(* Guide placement on its own: the mesh has any bounding box of whole and  *)
(* half units up to MaxDim half units and one of two centers, the user has *)
(* clicked it, and create guides runs.                                     *)
(***************************************************************************)
Centers == {Vector(0, 0, 0), Vector(1000, -500, 250)}

Dims == {5 * d : d \in 0..MaxDim}

InitPlacement ==
    \E height \in Dims, width \in Dims, center \in Centers :
        InitSession(click(InitScene(height, width, center), 1), 0)

NextPlacement == CreateGuides

SpecPlacement == InitPlacement /\ [][NextPlacement]_vars

(***************************************************************************)
(* Reading the scene.                                                      *)
(***************************************************************************)
IndexOf(seq, x) == CHOOSE i \in DOMAIN seq : seq[i] = x

GuideObjects == {o \in DOMAIN objects : IsGuide(o)}

\* the mesh a guide was created on: the target of its shrinkwrap constraint
Target(g) == objects[g].constraints[1].target

\* a guide's offset from the center of its mesh
GuideOffset(g) == VecSub(objects[g].location, objects[Target(g)].location)

\* a guide's row in the guide table
TableIndex(g) ==
    IndexOf([i \in DOMAIN guide_offsets(0, 0) |-> guide_offsets(0, 0)[i].name],
            objects[g].name[1])

GuidesOf(m) == {g \in GuideObjects : Target(g) = m}

\* the guide of mesh m created under the table name `name`, in the batch whose
\* names got suffix n
GuideNamed(m, name, n) ==
    CHOOSE g \in GuidesOf(m) : objects[g].name = Name(name, n)

HasGuide(m, name, n) == \E g \in GuidesOf(m) : objects[g].name = Name(name, n)

Meshes == {o \in DOMAIN objects : objects[o].type = "MESH"}

\* the left/right guide pairs of the arm chains and of the leg chains
ArmLegPairs ==
    { <<chains[2].guides[i], chains[3].guides[i]>> : i \in 1..4 } \cup
    { <<chains[4].guides[i], chains[5].guides[i]>> : i \in 1..4 }

MirrorX(v) == <<-v[1], v[2], v[3]>>

FootGuides == {"L_Foot_Guide", "R_Foot_Guide"}

\* the suffixes a batch of guides can have got
Suffixes == 0..guide_runs

(***************************************************************************)
(* C3.  Create guides, for every mesh: the left/right pairs of the arm and *)
(* leg chains and the spine guides.                                        *)
(***************************************************************************)
\* the left/right pairs among the guides of batch n on mesh m
PairsPlaced(m, n) == {p \in ArmLegPairs : HasGuide(m, p[1], n) /\ HasGuide(m, p[2], n)}

\* every left/right pair placed has the R guide's offset from the mesh center
\* the mirror in x of the L guide's (same y and z), and the four spine guides
\* are placed with no x offset
Mirrored(m, n) ==
    /\ \A p \in PairsPlaced(m, n) :
          GuideOffset(GuideNamed(m, p[2], n)) = MirrorX(GuideOffset(GuideNamed(m, p[1], n)))
    /\ \A i \in 1..4 :
          /\ HasGuide(m, chains[1].guides[i], n)
          /\ GuideOffset(GuideNamed(m, chains[1].guides[i], n))[1] = 0

\* C3 as stated: create guides places ten left/right pairs, each mirrored, and
\* the four spine guides with no x offset
C3_TenPairsAsStated ==
    \A m \in Meshes : \A n \in Suffixes :
        HasGuide(m, "C_Root_Guide", n) =>
            /\ Cardinality(PairsPlaced(m, n)) = 10
            /\ Mirrored(m, n)

\* C3 amended: create guides places eight left/right pairs (four of the arm
\* chains, four of the leg chains), each mirrored, and the four spine guides
\* with no x offset
C3_MirroredPairs ==
    \A m \in Meshes : \A n \in Suffixes :
        HasGuide(m, "C_Root_Guide", n) =>
            /\ PairsPlaced(m, n) = ArmLegPairs
            /\ Cardinality(PairsPlaced(m, n)) = 8
            /\ Mirrored(m, n)

\* guides were created on a wide mesh away from the origin: the hand guides sit
\* on opposite sides of the center
C3_Witness ==
    /\ op = "create_guides"
    /\ result = "FINISHED"
    /\ \E m \in Meshes :
          /\ objects[m].location # Vector(0, 0, 0)
          /\ HasGuide(m, "L_Hand_Guide", 0)
          /\ HasGuide(m, "R_Hand_Guide", 0)
          /\ GuideOffset(GuideNamed(m, "L_Hand_Guide", 0))[1] > 0
          /\ GuideOffset(GuideNamed(m, "R_Hand_Guide", 0))[1] < 0

(***************************************************************************)
(* C4.  Create guides: what the table gives for a bounding box scaled by k *)
(* against k times the offset the guide was placed with.                   *)
(***************************************************************************)
\* the offset guide g would get on its mesh with the bounding box scaled by k
ScaledOffset(g, k) ==
    LET m == Target(g)
    IN  VecSub(guides_data(k * objects[m].height, k * objects[m].width,
                           objects[m].location)[TableIndex(g)].location,
               objects[m].location)

Degenerate(m) == objects[m].height = 0 /\ objects[m].width = 0

\* C4 as stated: every one of the 20 guide offsets is multiplied by k when height
\* and width are, and on a degenerate mesh every guide is at the mesh center
C4_AllOffsetsScale ==
    \A g \in GuideObjects :
        /\ \A k \in 0..MaxScale : ScaledOffset(g, k) = VecScale(k, GuideOffset(g))
        /\ Degenerate(Target(g)) => objects[g].location = objects[Target(g)].location

\* C4 amended: the 18 guides other than the two foot guides scale with the
\* bounding box and collapse to the mesh center on a degenerate mesh; a foot
\* guide keeps a fixed forward (y) offset of 0.1, its x and z scale, and on a
\* degenerate mesh it is at the center + (0, 0.1, 0); create guides on a mesh
\* finishes and places all 20 guides
C4_OffsetsScaleButFeet ==
    /\ \A g \in GuideObjects :
          LET fixed == IF objects[g].name[1] \in FootGuides
                       THEN Vector(0, 100, 0) ELSE Vector(0, 0, 0)
          IN  /\ \A k \in 0..MaxScale :
                    VecSub(ScaledOffset(g, k), fixed) =
                        VecScale(k, VecSub(GuideOffset(g), fixed))
              /\ Degenerate(Target(g)) => GuideOffset(g) = fixed
    /\ op = "create_guides" =>
          /\ result = "FINISHED"
          /\ \E m \in Meshes : Cardinality(GuidesOf(m)) = Len(guide_offsets(0, 0))

\* guides were created on a degenerate mesh: the root guide is at the center and
\* the left foot guide 0.1 in front of it
C4_Witness ==
    /\ op = "create_guides"
    /\ result = "FINISHED"
    /\ \E m \in Meshes :
          /\ Degenerate(m)
          /\ HasGuide(m, "C_Root_Guide", 0)
          /\ objects[GuideNamed(m, "C_Root_Guide", 0)].location = objects[m].location
          /\ HasGuide(m, "L_Foot_Guide", 0)
          /\ GuideOffset(GuideNamed(m, "L_Foot_Guide", 0)) = Vector(0, 100, 0)

(***************************************************************************)
(* C5.  The concrete scenario: height 3, width 2, center (0, 0, 0).        *)
(***************************************************************************)
Scenario(m) ==
    /\ objects[m].height = 30
    /\ objects[m].width = 20
    /\ objects[m].location = Vector(0, 0, 0)
    /\ HasGuide(m, "C_Spine_02_Guide", 0)
    /\ HasGuide(m, "L_Shoulder_Guide", 0)

\* C5 as stated: C_Spine_02_Guide at (0, 0, 0.6), L_Shoulder_Guide at (0.4, 0, 2.4)
C5_ScenarioAsStated ==
    \A m \in Meshes : Scenario(m) =>
        /\ objects[GuideNamed(m, "C_Spine_02_Guide", 0)].location = Vector(0, 0, 600)
        /\ objects[GuideNamed(m, "L_Shoulder_Guide", 0)].location = Vector(400, 0, 2400)

\* C5 amended: C_Spine_02_Guide at (0, 0, 1.2) (it is C_Spine_01_Guide that is at
\* (0, 0, 0.6)), L_Shoulder_Guide at (0.4, 0, 2.4)
C5_Scenario ==
    \A m \in Meshes : Scenario(m) =>
        /\ objects[GuideNamed(m, "C_Spine_02_Guide", 0)].location = Vector(0, 0, 1200)
        /\ HasGuide(m, "C_Spine_01_Guide", 0)
        /\ objects[GuideNamed(m, "C_Spine_01_Guide", 0)].location = Vector(0, 0, 600)
        /\ objects[GuideNamed(m, "L_Shoulder_Guide", 0)].location = Vector(400, 0, 2400)

\* create guides has run on the mesh of the scenario
C5_Witness ==
    /\ op = "create_guides"
    /\ result = "FINISHED"
    /\ \E m \in Meshes : Scenario(m) /\ Cardinality(GuidesOf(m)) = Len(guide_offsets(0, 0))

(***************************************************************************)
(* Reading the rig of the most recent generate rig.                        *)
(***************************************************************************)
HasRig == generated # NoObject /\ generated \in DOMAIN objects

Rig == objects[generated].bones

\* the guides of chain c (positions in the chain table) present in the scene;
\* generate rig neither adds nor removes a guide, so these are also the
\* guides that were present when generate rig ran
PresentGuides(c) ==
    {i \in DOMAIN chains[c].guides : get_guide_by_name(Scene, chains[c].guides[i]) # NoObject}

GuideLocation(c, i) == objects[get_guide_by_name(Scene, chains[c].guides[i])].location

\* the bones of chain c in creation order
ChainBones(c) == SelectSeq(Rig, LAMBDA b : b.name \in Range(chains[c].bones))

\* the position in the chain table of the guide a bone of chain c was built from
GuideOfBone(c, b) == IndexOf(chains[c].bones, b.name)

HasBoneOf(c, i) == \E j \in DOMAIN Rig : Rig[j].name = chains[c].bones[i]

BoneOf(c, i) == Rig[CHOOSE j \in DOMAIN Rig : Rig[j].name = chains[c].bones[i]]

ChainOf(name) == CHOOSE c \in DOMAIN chains : name \in Range(chains[c].bones)

Least(S) == CHOOSE x \in S : \A y \in S : x <= y

Greatest(S) == CHOOSE x \in S : \A y \in S : y <= x

\* whether bone `to` is reached from bone `from` by one or more parent steps
RECURSIVE OnParentPath(_, _, _, _)
OnParentPath(bs, from, to, fuel) ==
    IF fuel = 0 \/ bs[from].parent = NoBone \/ ~HasBone(bs, bs[from].parent)
    THEN FALSE
    ELSE LET p == CHOOSE j \in DOMAIN bs : bs[j].name = bs[from].parent
         IN  p = to \/ OnParentPath(bs, p, to, fuel - 1)

\* chain c has a guide missing between two present ones
HasGap(c) ==
    \E k \in DOMAIN chains[c].guides :
        /\ k \notin PresentGuides(c)
        /\ \E i, j \in PresentGuides(c) : i < k /\ k < j

(***************************************************************************)
(* C1.  Generate rig, for every chain and every set of guides present.     *)
(***************************************************************************)
\* C1 as stated: N guides present give N bones of the chain, each bone's tail is
\* the next bone's head, each bone's parent is the bone before it, and the
\* first bone has no parent
C1_ChainAsStated ==
    HasRig =>
        \A c \in DOMAIN chains :
            LET bs == ChainBones(c)
            IN  /\ Len(bs) = Cardinality(PresentGuides(c))
                /\ \A i \in 1..(Len(bs) - 1) : bs[i].tail = bs[i + 1].head
                /\ \A i \in 2..Len(bs) : bs[i].parent = bs[i - 1].name
                /\ Len(bs) >= 1 => bs[1].parent = NoBone

\* C1 amended: N bones, the parents as stated, each bone's head at its guide; a
\* bone's tail is the next bone's head when the two guides are neighbours in the
\* chain table (so for every bone but the last when no guide is missing between
\* two present ones), and the bone's head + (0, 0, 0.1) when the guide after its
\* own is missing
C1_Chain ==
    HasRig =>
        \A c \in DOMAIN chains :
            LET bs == ChainBones(c)
            IN  /\ Len(bs) = Cardinality(PresentGuides(c))
                /\ \A i \in 1..Len(bs) :
                      /\ GuideOfBone(c, bs[i]) \in PresentGuides(c)
                      /\ bs[i].head = GuideLocation(c, GuideOfBone(c, bs[i]))
                /\ \A i \in 1..(Len(bs) - 1) :
                      /\ GuideOfBone(c, bs[i]) < GuideOfBone(c, bs[i + 1])
                      /\ IF GuideOfBone(c, bs[i + 1]) = GuideOfBone(c, bs[i]) + 1
                         THEN bs[i].tail = bs[i + 1].head
                         ELSE bs[i].tail = VecAdd(bs[i].head, Vector(0, 0, 100))
                /\ \A i \in 2..Len(bs) : bs[i].parent = bs[i - 1].name
                /\ Len(bs) >= 1 => bs[1].parent = NoBone

\* generate rig has run with one chain complete (four connected bones) and one
\* chain with a guide missing between two present ones
C1_Witness ==
    /\ op = "generate_rig"
    /\ HasRig
    /\ \E c \in DOMAIN chains :
          /\ PresentGuides(c) = 1..4
          /\ Len(ChainBones(c)) = 4
          /\ \A i \in 1..3 : ChainBones(c)[i].tail = ChainBones(c)[i + 1].head
    /\ \E c \in DOMAIN chains : HasGap(c) /\ Len(ChainBones(c)) >= 2

(***************************************************************************)
(* C2.  Generate rig with a middle guide k of a chain missing.             *)
(***************************************************************************)
MiddleMissing(c, k) ==
    /\ k \notin PresentGuides(c)
    /\ \E i \in PresentGuides(c) : i < k
    /\ \E j \in PresentGuides(c) : k < j

LastBefore(c, k) == Greatest({i \in PresentGuides(c) : i < k})

FirstAfter(c, k) == Least({j \in PresentGuides(c) : k < j})

\* C2 as stated: no error, no bone for guide k, and the bone of the first present
\* guide after k is not parented to the bone of the last present guide before k
C2_ParentGapAsStated ==
    HasRig =>
        /\ op = "generate_rig" => result = "FINISHED"
        /\ \A c \in DOMAIN chains : \A k \in DOMAIN chains[c].guides :
              MiddleMissing(c, k) =>
                  /\ ~HasBoneOf(c, k)
                  /\ BoneOf(c, FirstAfter(c, k)).parent # chains[c].bones[LastBefore(c, k)]

\* C2 amended: no error, no bone for guide k, and the bone of the first present
\* guide after k is parented to the bone of the last present guide before k: the
\* parent linkage has no gap.  The gap is in position: the bone of the last
\* present guide before k ends at its head + (0, 0, 0.1) when the guide after
\* its own is missing
C2_NoParentGap ==
    HasRig =>
        /\ op = "generate_rig" => result = "FINISHED"
        /\ \A c \in DOMAIN chains : \A k \in DOMAIN chains[c].guides :
              MiddleMissing(c, k) =>
                  /\ ~HasBoneOf(c, k)
                  /\ HasBoneOf(c, FirstAfter(c, k))
                  /\ HasBoneOf(c, LastBefore(c, k))
                  /\ BoneOf(c, FirstAfter(c, k)).parent = chains[c].bones[LastBefore(c, k)]
                  /\ (LastBefore(c, k) + 1 \notin PresentGuides(c)) =>
                        BoneOf(c, LastBefore(c, k)).tail =
                            VecAdd(BoneOf(c, LastBefore(c, k)).head, Vector(0, 0, 100))

\* generate rig has run on a chain whose guides 1, 2 and 4 are present and whose
\* guide 3 is missing
C2_Witness ==
    /\ op = "generate_rig"
    /\ result = "FINISHED"
    /\ HasRig
    /\ \E c \in DOMAIN chains :
          /\ PresentGuides(c) = {1, 2, 4}
          /\ MiddleMissing(c, 3)
          /\ HasBoneOf(c, 4)
          /\ BoneOf(c, 4).parent = chains[c].bones[2]

(***************************************************************************)
(* C9.  After generate rig the bones form a forest of independent chains:  *)
(* a bone's parent is an earlier bone of the same chain, no bone reaches    *)
(* itself through parents, and a chain with a guide present has exactly    *)
(* one root, the bone of its first present guide (a chain with none has no *)
(* bone).                                                                  *)
(***************************************************************************)
C9_Forest ==
    HasRig =>
        /\ \A i \in DOMAIN Rig :
              /\ Rig[i].name \in UNION {Range(chains[c].bones) : c \in DOMAIN chains}
              /\ \A j \in DOMAIN Rig : Rig[j].name = Rig[i].name => j = i
              /\ Rig[i].parent # NoBone =>
                    \E j \in 1..(i - 1) :
                        /\ Rig[j].name = Rig[i].parent
                        /\ ChainOf(Rig[j].name) = ChainOf(Rig[i].name)
              /\ ~OnParentPath(Rig, i, i, Len(Rig))
        /\ \A c \in DOMAIN chains :
              LET roots == {i \in DOMAIN Rig : ChainOf(Rig[i].name) = c /\ Rig[i].parent = NoBone}
              IN  IF PresentGuides(c) = {}
                  THEN ChainBones(c) = <<>>
                  ELSE /\ Cardinality(roots) = 1
                       /\ \A i \in roots : Rig[i].name = chains[c].bones[Least(PresentGuides(c))]

\* generate rig has run with all five chains built, one of them from guides 2
\* and 4 alone: its root is the bone of guide 2
C9_Witness ==
    /\ op = "generate_rig"
    /\ HasRig
    /\ \A c \in DOMAIN chains : Len(ChainBones(c)) >= 2
    /\ \E c \in DOMAIN chains :
          /\ PresentGuides(c) = {2, 4}
          /\ BoneOf(c, 2).parent = NoBone
          /\ BoneOf(c, 4).parent = chains[c].bones[2]

(***************************************************************************)
(* Reading the session.                                                    *)
(***************************************************************************)
Armatures == {o \in DOMAIN objects : objects[o].type = "ARMATURE"}

AutoRigs == {a \in Armatures : objects[a].name = Name("AutoRig", 0)}

SelectedMeshes == {o \in Meshes : objects[o].select}

\* the parent relationships of the scene
Parents == [o \in DOMAIN objects |-> objects[o].parent]

(***************************************************************************)
(* C6.  Bind mesh, in every scene state: it returns finished if and only   *)
(* if a mesh is selected and an armature named "AutoRig" exists; when it   *)
(* finishes, a mesh that was selected is a child of that armature, and     *)
(* when it returns cancelled no parent relationship has changed.           *)
(***************************************************************************)
C6_BindMesh ==
    [][op' = "bind_mesh" =>
          /\ result' \in {"FINISHED", "CANCELLED"}
          /\ result' = "FINISHED" <=> (SelectedMeshes # {} /\ AutoRigs # {})
          /\ result' = "FINISHED" =>
                \E m \in SelectedMeshes : \E a \in AutoRigs :
                    /\ m \in DOMAIN objects'
                    /\ objects'[m].parent = a
          /\ result' = "CANCELLED" =>
                [o \in DOMAIN objects' |-> objects'[o].parent] = Parents]_vars

\* bind mesh has finished: the selected mesh is a child of the AutoRig armature
C6_Witness ==
    /\ op = "bind_mesh"
    /\ result = "FINISHED"
    /\ \E m \in SelectedMeshes : \E a \in AutoRigs : objects[m].parent = a

ActiveIsMesh == active # NoObject /\ objects[active].type = "MESH"

(***************************************************************************)
(* C7.  A cancelled action leaves the scene unchanged: create guides with  *)
(* no active object or a non-mesh active object, and clear binding with no *)
(* active object or a non-mesh active object, return cancelled, and after  *)
(* any cancelled action the objects (with their parents, constraints and   *)
(* selection), the active object and the mode are what they were.          *)
(***************************************************************************)
C7_CancelledFrame ==
    [][/\ (op' \in {"create_guides", "clear_binding"} /\ ~ActiveIsMesh) =>
              result' = "CANCELLED"
       /\ result' = "CANCELLED" =>
              /\ objects' = objects
              /\ active' = active
              /\ mode' = mode
              /\ nextId' = nextId]_vars

\* clear binding was cancelled in a scene that holds a parent relationship
C7_Witness ==
    /\ op = "clear_binding"
    /\ result = "CANCELLED"
    /\ \E o \in DOMAIN objects : objects[o].parent # NoObject

(***************************************************************************)
(* C8.  The host is never left in edit mode: after every action it is in   *)
(* object mode, and every bone of every armature was created while the     *)
(* host was in edit mode on that armature.                                 *)
(***************************************************************************)
C8_ObjectMode ==
    /\ mode = "OBJECT"
    /\ \A a \in Armatures : \A i \in DOMAIN objects[a].bones : objects[a].bones[i].in_edit

\* generate rig has completed with all twenty bones, after a human rig was made
C8_Witness ==
    /\ op = "generate_rig"
    /\ HasRig
    /\ Len(Rig) = 20
    /\ \E a \in Armatures : Len(objects[a].bones) = Len(human_bones)

(***************************************************************************)
(* C10.  As stated: at most one armature is named "AutoRig", and whenever  *)
(* bind mesh finishes, the armature the mesh is parented to is the one     *)
(* made by the most recent generate rig.                                   *)
(***************************************************************************)
C10_BindsLatestRig ==
    /\ Cardinality(AutoRigs) <= 1
    /\ (op = "bind_mesh" /\ result = "FINISHED") =>
          \A m \in SelectedMeshes : objects[m].parent = generated

====
